---- MODULE Spec2Model ----
(***************************************************************************)
(* State-machine model of the OTP client library:                          *)
(*   HttpClient (src/src/http-client.ts)  - transport, POST retry loop     *)
(*   OtpClient  (src/src/otp-client.ts)   - operations, validation,        *)
(*                                          idempotency keys, config cache *)
(*   OtpError   (src/unnamed/part_000)    - error translation              *)
(* Every asynchronous operation is cut at its awaits: one action for the   *)
(* synchronous prefix of the call (up to the first network request), one   *)
(* for the arrival of a network response, one for the expiry of a backoff  *)
(* timer. JavaScript runs each of these pieces without interleaving.       *)
(***************************************************************************)
EXTENDS Integers, Sequences, FiniteSets, TLC

(***************************************************************************)
(* Bounds of the model                                                     *)
(***************************************************************************)
\* value of Date.now() when the client is constructed (ms)
StartTime == 1000
\* largest value of config.maxRetries
MaxConfiguredRetries == 4

\* slots for operations in progress
Ops == {1, 2}
\* the instants at which events happen, as offsets from StartTime (ms): the
\* ends of the backoff delays of an operation started at StartTime (0, 1000,
\* 3000, 7000, ...), and the two sides of the cache TTL of a configuration
\* fetched at StartTime + 1000
Offsets ==
  {(2 ^ k) * 1000 - 1000 : k \in 0 .. MaxConfiguredRetries - 1}
    \cup {3600000, 3601000}
Instants == {StartTime + d : d \in Offsets}
\* values of config.maxRetries (0 stands for an omitted or zero value)
ConfigMaxRetries == 0 .. MaxConfiguredRetries
\* values Math.random() contributes to a generated key
RandomTokens == {"r1", "r2"}

(***************************************************************************)
(* Program constants                                                       *)
(***************************************************************************)
CONFIG_CACHE_TTL == 3600000
DefaultMaxRetries == 3
BackoffBaseMs == 1000
SDK_VERSION == "2.1.5"
\* detectPlatform() under Node.js, detectLanguage()
DetectedPlatform == "node"
DetectedLanguage == "typescript"

(***************************************************************************)
(* Inputs                                                                  *)
(***************************************************************************)
Digits == {"0", "1", "2", "3", "4", "5", "6", "7", "8", "9"}
NonZeroDigits == Digits \ {"0"}

\* a run of n copies of the digit d
RECURSIVE Rep(_, _)
Rep(d, n) == IF n = 0 THEN <<>> ELSE <<d>> \o Rep(d, n - 1)

\* phone numbers handed to sendOtp, as sequences of characters
PhoneMin == <<"+", "1", "2">>
PhoneMax == <<"+", "9">> \o Rep("5", 14)
PhoneInputs ==
  { PhoneMin, PhoneMax,
    <<>>, <<"+">>, <<"+", "1">>,
    <<"1", "2", "3", "4", "5", "6">>,
    <<"+", "0", "1", "2">>,
    <<"+", "9">> \o Rep("5", 15),
    <<"+", "1", "2", "a">>,
    <<"+", "1", "2", "\n">>,
    <<" ", "+", "1", "2">> }

\* request ids handed to verify / resend / status ("" is the empty id)
RequestIdInputs == {"", "req_1"}
\* codes handed to verifyOtp ("" stands for a missing or empty code)
CodeInputs == {"", "123", "1234", "12345678", "123456789"}

\* idempotency keys: the string `${timestamp}-${random}` as its two parts;
\* a caller-supplied key is an opaque string, kept in rnd with ts = 0
NoKey == [ts |-> 0, rnd |-> ""]
SuppliedKeys == {[ts |-> 0, rnd |-> "my-key"]}
KeyInputs == {NoKey} \cup SuppliedKeys

(***************************************************************************)
(* The wire: what one network call can come back with                      *)
(***************************************************************************)
SendPayloads ==
  { [requestId |-> "req_1", expiresAt |-> "2025-01-01T00:05:00Z", status |-> "SENT"],
    [requestId |-> "req_2", expiresAt |-> "2025-01-01T00:10:00Z", status |-> "PENDING"] }
VerifyPayloads ==
  { [success |-> TRUE, message |-> "verified"],
    [success |-> FALSE, message |-> "invalid"] }
StatusPayloads ==
  { [status |-> "SENT", expiresAt |-> "2025-01-01T00:05:00Z", verifiedAt |-> "",
     createdAt |-> "2025-01-01T00:00:00Z"],
    [status |-> "VERIFIED", expiresAt |-> "2025-01-01T00:05:00Z",
     verifiedAt |-> "2025-01-01T00:01:00Z", createdAt |-> "2025-01-01T00:00:00Z"] }
ConfigPayloads ==
  { [version |-> "2.0", features |-> [testMode |-> FALSE]],
    [version |-> "2.1", features |-> [testMode |-> TRUE]] }
TestPayloads == { [success |-> TRUE, message |-> "ok"] }

\* `data` of a /api/v1/sdk/config answer that has no `features` member
FeaturelessConfigPayloads == { [version |-> "1.0"] }
AnyConfigPayloads == ConfigPayloads \cup FeaturelessConfigPayloads

\* error envelopes { success: false, error: {...}, meta: {...} }
ErrorPayloads ==
  { [error |-> [code |-> "SERVICE_UNAVAILABLE", message |-> "down",
                statusCode |-> 503, retryable |-> TRUE],
     meta |-> [requestId |-> "srv_1"]],
    [error |-> [code |-> "RATE_LIMIT_EXCEEDED", message |-> "slow down",
                statusCode |-> 429, retryable |-> TRUE],
     meta |-> [requestId |-> "srv_2"]],
    [error |-> [code |-> "VALIDATION_ERROR", message |-> "bad request",
                statusCode |-> 400, retryable |-> FALSE],
     meta |-> [requestId |-> "srv_3"]] }

\* envelopes whose retryable flag is not the one the error classes of the
\* library give their code (RateLimitError: true, ValidationError: false)
InconsistentPayloads ==
  { [error |-> [code |-> "RATE_LIMIT_EXCEEDED", message |-> "blocked",
                statusCode |-> 429, retryable |-> FALSE],
     meta |-> [requestId |-> "srv_4"]],
    [error |-> [code |-> "VALIDATION_ERROR", message |-> "try again",
                statusCode |-> 400, retryable |-> TRUE],
     meta |-> [requestId |-> "srv_5"]] }

\* an envelope whose code is not a member of ErrorCode
UnknownCodePayloads ==
  { [error |-> [code |-> "QUOTA_SUSPENDED", message |-> "suspended",
                statusCode |-> 402, retryable |-> TRUE],
     meta |-> [requestId |-> "srv_6"]] }

\* response bodies without an error section, or without a meta section
MalformedPayloads ==
  { [meta |-> [requestId |-> "srv_7"]],
    [error |-> [code |-> "INTERNAL_SERVER_ERROR", message |-> "oops",
                statusCode |-> 500, retryable |-> FALSE]] }

\* everything a service, or a proxy in front of it, may answer a failed call
\* with
AnyErrorPayloads ==
  ErrorPayloads \cup InconsistentPayloads \cup UnknownCodePayloads
    \cup MalformedPayloads

\* the members of enum ErrorCode
KnownCodes ==
  { "AUTHENTICATION_FAILED", "INVALID_API_KEY", "API_KEY_REVOKED",
    "INVALID_PHONE_NUMBER", "PHONE_NUMBER_BLOCKED", "OTP_EXPIRED",
    "OTP_MAX_ATTEMPTS", "INVALID_OTP_CODE", "OTP_NOT_FOUND",
    "OTP_ALREADY_VERIFIED", "RATE_LIMIT_EXCEEDED", "INSUFFICIENT_BALANCE",
    "PAYMENT_REQUIRED", "NO_BRAND_CONFIGURED", "BRAND_NOT_AUTHORIZED",
    "BRAND_PENDING_APPROVAL", "BRAND_CREATION_FAILED", "SMS_SEND_FAILED",
    "PROVIDER_UNAVAILABLE", "VALIDATION_ERROR", "MISSING_REQUIRED_FIELD",
    "INTERNAL_SERVER_ERROR", "SERVICE_UNAVAILABLE",
    "IDEMPOTENCY_KEY_CONFLICT" }

OkResponse(d) == [type |-> "ok", data |-> d]
ErrResponse(p) == [type |-> "error", data |-> p]
\* a failure without response data: connection reset, DNS failure, timeout
FaultResponse == [type |-> "fault", data |-> [none |-> TRUE]]

PostKinds == {"sendOtp", "verifyOtp", "resendOtp"}
GetKinds == {"getStatus", "getStatusWithCode", "getConfig", "testConnection", "isTestMode"}

PayloadsFor(kind) ==
  CASE kind \in {"sendOtp", "resendOtp"} -> SendPayloads
    [] kind = "verifyOtp" -> VerifyPayloads
    [] kind \in {"getStatus", "getStatusWithCode"} -> StatusPayloads
    [] kind \in {"getConfig", "isTestMode"} -> ConfigPayloads
    [] OTHER -> TestPayloads

(***************************************************************************)
(* State                                                                   *)
(***************************************************************************)
VARIABLES
  maxRetries,             \* HttpClient.maxRetries
  now,                    \* Date.now()
  serverConfig,           \* OtpClient.serverConfig (NoConfig = null)
  serverConfigFetchedAt,  \* OtpClient.serverConfigFetchedAt (0 = null)
  cacheWriter,            \* which invocation wrote each of the two fields
  lastFetch,              \* the latest configuration fetch that succeeded
  ops,                    \* the operations in progress
  concurrency,            \* how many operations the host keeps in progress
  http,                   \* HttpClient.platform, .language, the axios defaults
  wire,                   \* the error envelopes the service answers with
  configBodies,           \* the bodies the service answers a configuration fetch with
  auto                    \* the getConfig() that the constructor started, if any

vars == <<maxRetries, now, serverConfig, serverConfigFetchedAt, cacheWriter,
          lastFetch, ops, concurrency, http, wire, configBodies, auto>>

ResponsesFor(kind) ==
  {OkResponse(d) : d \in IF kind \in {"getConfig", "isTestMode"}
                          THEN configBodies ELSE PayloadsFor(kind)}
    \cup {ErrResponse(p) : p \in wire}
    \cup {FaultResponse}

NoConfig == [null |-> TRUE]
NoValue == [none |-> TRUE]
NoArgs == [phoneNumber |-> <<>>, requestId |-> "", code |-> "",
           idempotencyKey |-> NoKey, forceRefresh |-> FALSE]
NoRequest == [method |-> "", path |-> <<>>, body |-> NoValue, key |-> NoKey]
Pending == [status |-> "pending", value |-> NoValue]

IdleOp ==
  [kind |-> "none", pc |-> "idle", id |-> 0, args |-> NoArgs,
   req |-> NoRequest, attempt |-> 0, sent |-> <<>>, log |-> <<>>,
   lastError |-> NoValue, waits |-> <<>>, wakeAt |-> 0,
   cacheAtStart |-> "empty",
   found |-> [serverConfig |-> NoConfig, serverConfigFetchedAt |-> 0],
   postReturn |-> Pending, result |-> Pending,
   abandoned |-> FALSE, warned |-> FALSE]

(***************************************************************************)
(* OtpError (src/unnamed/part_000) and the response interceptor            *)
(***************************************************************************)
\* the TypeError of reading a property of undefined
TypeErrorReading(property) ==
  [name |-> "TypeError",
   message |-> "Cannot read properties of undefined (reading '" \o property \o "')"]

\* variant: the retryable flag is looked up by the code of the error
FromApiError_ByKind(response) ==
  IF "error" \notin DOMAIN response THEN TypeErrorReading("message")
  ELSE IF "meta" \notin DOMAIN response THEN TypeErrorReading("requestId")
  ELSE [name |-> "OtpError",
        message |-> response.error.message,
        code |-> response.error.code,
        statusCode |-> response.error.statusCode,
        retryable |-> response.error.code \in {"RATE_LIMIT_EXCEEDED", "SERVICE_UNAVAILABLE",
                                               "PROVIDER_UNAVAILABLE"},
        requestId |-> response.meta.requestId]

\* OtpError.fromApiError: every field is copied from the envelope; the
\* arguments of the constructor are evaluated in order, and reading
\* response.error.message or response.meta.requestId of a body without that
\* section throws
FromApiError(response) ==
  IF "error" \notin DOMAIN response THEN TypeErrorReading("message")
  ELSE IF "meta" \notin DOMAIN response THEN TypeErrorReading("requestId")
  ELSE [name |-> "OtpError",
        message |-> response.error.message,
        code |-> response.error.code,
        statusCode |-> response.error.statusCode,
        retryable |-> response.error.retryable,
        requestId |-> response.meta.requestId]

\* the AxiosError of a failure that carries no response data
TransportFault == [name |-> "AxiosError", message |-> "Network Error"]

\* variant: a failure without response data is wrapped as a retryable OtpError
Interceptor_WrapFault(resp) ==
  IF resp.type = "error"
  THEN FromApiError(resp.data)
  ELSE [name |-> "OtpError", message |-> "Network Error", code |-> "NETWORK_ERROR",
        statusCode |-> 0, retryable |-> TRUE, requestId |-> ""]

\* the rejection handler of the response interceptor: what a failed call throws
Interceptor(resp) ==
  IF resp.type = "error" THEN FromApiError(resp.data) ELSE TransportFault

\* error instanceof OtpError
IsOtpError(e) == e.name = "OtpError"

\* throw new Error(message)
PlainError(msg) == [name |-> "Error", message |-> msg]

\* the value of `lastError` when the retry loop never ran
Undefined == [name |-> "undefined", message |-> ""]

(***************************************************************************)
(* HttpClient: the headers of the axios instance                           *)
(***************************************************************************)
ApiKey == "test-key"
NoHeaders == [name \in {} |-> ""]
\* values of config.headers ("" stands for an omitted platform / language)
CustomHeaderInputs ==
  { NoHeaders,
    "X-Custom" :> "value",
    "X-OTP-SDK-Version" :> "0.0.0",
    "X-OTP-SDK-Platform" :> "proxy" }
PlatformInputs == {"", "react-native"}
LanguageInputs == {"", "javascript"}

\* the constructor of HttpClient: platform, language and the headers handed
\* to axios.create, an object literal that ends with ...config.headers
NewHttpClient(platform, language, custom) ==
  LET p == IF platform = "" THEN DetectedPlatform ELSE platform
      l == IF language = "" THEN DetectedLanguage ELSE language
  IN  [platform |-> p, language |-> l,
       headers |-> custom @@ ("Content-Type" :> "application/json"
                              @@ "X-API-Key" :> ApiKey
                              @@ "X-OTP-SDK-Version" :> SDK_VERSION
                              @@ "X-OTP-SDK-Platform" :> p
                              @@ "X-OTP-SDK-Language" :> l)]

\* a client constructed without platform, language or custom headers
DefaultHttp == NewHttpClient("", "", NoHeaders)

\* the headers of a request on the wire: the defaults of the instance and,
\* over them, the headers of the call
RequestHeaders(defaults, req) ==
  IF req.key = NoKey THEN defaults ELSE ("X-Idempotency-Key" :> req.key) @@ defaults

(***************************************************************************)
(* OtpClient helpers                                                       *)
(***************************************************************************)
\* how many of the characters s[i], s[i+1], ... are digits, reading at most
\* max of them: the greedy match of \d{1,14}
RECURSIVE DigitRun(_, _, _)
DigitRun(s, i, max) ==
  IF max = 0 \/ i > Len(s) \/ s[i] \notin Digits
  THEN 0
  ELSE 1 + DigitRun(s, i + 1, max - 1)

\* variant: the pattern without its closing anchor, /^\+[1-9]\d{1,14}/
E164Test_Unanchored(s) ==
  /\ Len(s) >= 2
  /\ s[1] = "+"
  /\ s[2] \in NonZeroDigits
  /\ DigitRun(s, 3, 14) >= 1

\* /^\+[1-9]\d{1,14}$/.test(phoneNumber)
E164Test(s) ==
  /\ Len(s) >= 2
  /\ s[1] = "+"
  /\ s[2] \in NonZeroDigits
  /\ LET k == DigitRun(s, 3, 14)
     IN  k >= 1 /\ 2 + k = Len(s)

\* validatePhoneNumber: the error it throws, or NoValue
ValidatePhoneNumber(phoneNumber) ==
  IF E164Test(phoneNumber)
  THEN NoValue
  ELSE PlainError("Invalid phone number format. Must be in E.164 format (e.g., +995555123456)")

\* variant: the lower limit of the code length is off by one
ValidateVerify_Short(requestId, code) ==
  IF requestId = "" THEN PlainError("Request ID is required")
  ELSE IF code = "" \/ Len(code) < 3 \/ Len(code) > 8
       THEN PlainError("Code must be between 4 and 8 characters")
       ELSE NoValue

\* the checks at the head of verifyOtp: the error thrown, or NoValue
ValidateVerify(requestId, code) ==
  IF requestId = "" THEN PlainError("Request ID is required")
  ELSE IF code = "" \/ Len(code) < 4 \/ Len(code) > 8
       THEN PlainError("Code must be between 4 and 8 characters")
       ELSE NoValue

\* the check at the head of resendOtp, getStatus and getStatusWithCode
ValidateRequestId(requestId) ==
  IF requestId = "" THEN PlainError("Request ID is required") ELSE NoValue

\* generateIdempotencyKey: `${Date.now()}-${random}`
GenerateIdempotencyKey(t, rnd) == [ts |-> t, rnd |-> rnd]

\* new Date(wireString): the instant the string denotes, as a Date object
ToDate(s) == [date |-> s]
NullDate == [date |-> "null"]

\* { ...response, expiresAt: new Date(response.expiresAt) }
CoerceSend(r) == [r EXCEPT !.expiresAt = ToDate(r.expiresAt)]

\* variant: a status read after the expiry instant is reported as EXPIRED
CoerceStatus_LocalTransition(r) ==
  [r EXCEPT !.status = IF @ = "SENT" THEN "EXPIRED" ELSE @,
            !.expiresAt = ToDate(r.expiresAt),
            !.verifiedAt = IF r.verifiedAt # "" THEN ToDate(r.verifiedAt) ELSE NullDate,
            !.createdAt = ToDate(r.createdAt)]

\* the three date fields of a status response
CoerceStatus(r) ==
  [r EXCEPT !.expiresAt = ToDate(r.expiresAt),
            !.verifiedAt = IF r.verifiedAt # "" THEN ToDate(r.verifiedAt) ELSE NullDate,
            !.createdAt = ToDate(r.createdAt)]

(***************************************************************************)
(* Requests                                                                *)
(***************************************************************************)
SendRequest(phoneNumber, key) ==
  [method |-> "POST", path |-> <<"/api/v1/otp/send">>,
   body |-> [phoneNumber |-> phoneNumber, channel |-> "SMS", ttl |-> 300, length |-> 6],
   key |-> key]

\* variant: verifyOtp sends a key derived from its arguments
VerifyRequest_WithKey(requestId, code) ==
  [method |-> "POST", path |-> <<"/api/v1/otp/verify">>,
   body |-> [requestId |-> requestId, code |-> code],
   key |-> [ts |-> 0, rnd |-> requestId]]

VerifyRequest(requestId, code) ==
  [method |-> "POST", path |-> <<"/api/v1/otp/verify">>,
   body |-> [requestId |-> requestId, code |-> code],
   key |-> NoKey]

ResendRequest(requestId, key) ==
  [method |-> "POST", path |-> <<"/api/v1/otp/", requestId, "/resend">>,
   body |-> NoValue, key |-> key]

GetRequest(path) == [method |-> "GET", path |-> path, body |-> NoValue, key |-> NoKey]

\* variant: a key is generated for every attempt
AttemptRequest_FreshKey(req, attempt, t) ==
  [req EXCEPT !.key = IF @ = NoKey THEN @ ELSE GenerateIdempotencyKey(t, "r1")]

\* this.client.post(path, data, config) of attempt `attempt`: the arguments
\* of post() are handed on as they are on every pass of the loop
AttemptRequest(req, attempt, t) == req

(***************************************************************************)
(* HttpClient                                                              *)
(***************************************************************************)
\* constructor: this.maxRetries = config.maxRetries || 3
HttpMaxRetries(c) == IF c = 0 THEN DefaultMaxRetries ELSE c

\* variant: the exponent is the attempt number (2s, 4s, 8s)
BackoffDelay_OffByOne(attempt) == (2 ^ attempt) * BackoffBaseMs

\* Math.pow(2, attempt - 1) * 1000
BackoffDelay(attempt) == (2 ^ (attempt - 1)) * BackoffBaseMs

\* variant: the retry branch is never taken
ShouldRetry_Never(error, attempt, max) == FALSE

\* variant: a retryable error is followed by a delay on the last attempt too
ShouldRetry_OnLastAttempt(error, attempt, max) ==
  IsOtpError(error) /\ error.retryable

\* error instanceof OtpError && error.retryable && attempt < this.maxRetries
ShouldRetry(error, attempt, max) ==
  IsOtpError(error) /\ error.retryable /\ attempt < max

\* variant: the error of the first attempt is kept and thrown
RaisedError_First(error, log) == Interceptor(log[1])

\* `throw error` in the catch block of post(): the error of this attempt
RaisedError(error, log) == error

Ok(v) == [status |-> "ok", value |-> v]
Err(e) == [status |-> "error", value |-> e]

\* `config.features` is an object: reading `.testMode` of it does not throw
HasFeatures(config) == "features" \in DOMAIN config

\* `config.features.testMode`, read where a TypeError is caught and answered false
TestModeOf(config) == HasFeatures(config) /\ config.features.testMode

\* getConfig calls console.warn for the content its fetch returned
WarnsTestMode(kind, resp) ==
  /\ kind \in {"getConfig", "isTestMode"}
  /\ resp.type = "ok"
  /\ TestModeOf(resp.data)

\* variant: testConnection lets the error of its call through
MethodResult_TestConnectionRaises(kind, outcome) ==
  IF outcome.status = "ok"
  THEN CASE kind \in {"sendOtp", "resendOtp"} -> Ok(CoerceSend(outcome.value))
         [] kind \in {"getStatus", "getStatusWithCode"} -> Ok(CoerceStatus(outcome.value))
         [] kind = "testConnection" -> Ok(TRUE)
         [] kind = "getConfig" -> IF HasFeatures(outcome.value) THEN outcome
                                  ELSE Err(TypeErrorReading("testMode"))
         [] kind = "isTestMode" -> Ok(TestModeOf(outcome.value))
         [] OTHER -> outcome
  ELSE CASE kind = "isTestMode" -> Ok(FALSE)
         [] OTHER -> outcome

\* variant: isTestMode catches an OtpError only
MethodResult_TestModeRaises(kind, outcome) ==
  IF outcome.status = "ok"
  THEN CASE kind \in {"sendOtp", "resendOtp"} -> Ok(CoerceSend(outcome.value))
         [] kind \in {"getStatus", "getStatusWithCode"} -> Ok(CoerceStatus(outcome.value))
         [] kind = "testConnection" -> Ok(TRUE)
         [] kind = "getConfig" -> IF HasFeatures(outcome.value) THEN outcome
                                  ELSE Err(TypeErrorReading("testMode"))
         [] kind = "isTestMode" -> Ok(TestModeOf(outcome.value))
         [] OTHER -> outcome
  ELSE CASE kind = "testConnection" -> Ok(FALSE)
         [] kind = "isTestMode" /\ IsOtpError(outcome.value) -> Ok(FALSE)
         [] OTHER -> outcome

\* what the OtpClient method makes of the outcome of its transport call
MethodResult(kind, outcome) ==
  IF outcome.status = "ok"
  THEN CASE kind \in {"sendOtp", "resendOtp"} -> Ok(CoerceSend(outcome.value))
         [] kind \in {"getStatus", "getStatusWithCode"} -> Ok(CoerceStatus(outcome.value))
         [] kind = "testConnection" -> Ok(TRUE)
         [] kind = "getConfig" -> IF HasFeatures(outcome.value) THEN outcome
                                  ELSE Err(TypeErrorReading("testMode"))
         [] kind = "isTestMode" -> Ok(TestModeOf(outcome.value))
         [] OTHER -> outcome
  ELSE CASE kind \in {"testConnection", "isTestMode"} -> Ok(FALSE)
         [] OTHER -> outcome

\* an operation that ends before any network call with a local error
FailLocally(op, e) ==
  [op EXCEPT !.pc = "done", !.result = Err(e)]

\* the network call of the current attempt goes out
IssueRequest(op, attempt, t) ==
  [op EXCEPT !.pc = "request", !.attempt = attempt,
             !.sent = Append(@, AttemptRequest(op.req, attempt, t))]

\* post(path, data, config) up to its first await: the loop is entered with
\* attempt = 1 when 1 <= maxRetries, and `throw lastError` is reached at once
\* otherwise
PostBegin(op, req, max, t) ==
  IF 1 <= max
  THEN IssueRequest([op EXCEPT !.req = req], 1, t)
  ELSE [op EXCEPT !.req = req, !.pc = "done",
                  !.postReturn = Err(Undefined),
                  !.result = MethodResult(op.kind, Err(Undefined))]

\* get(path) up to its await: one call, no loop
GetBegin(op, req, t) == IssueRequest([op EXCEPT !.req = req], 1, t)

\* post() from the arrival of a response to its next await or its end
PostStep(op, resp, max, t) ==
  LET logged == [op EXCEPT !.log = Append(@, resp),
                           !.lastError = IF resp.type = "ok" THEN @ ELSE Interceptor(resp)]
  IN  IF resp.type = "ok"
      THEN [logged EXCEPT !.pc = "done",
                          !.postReturn = Ok(resp.data),
                          !.result = MethodResult(op.kind, Ok(resp.data))]
      ELSE LET error == Interceptor(resp)
           IN  IF ShouldRetry(error, op.attempt, max)
               THEN [logged EXCEPT !.pc = "backoff",
                                   !.waits = Append(@, BackoffDelay(op.attempt)),
                                   !.wakeAt = t + BackoffDelay(op.attempt)]
               ELSE LET thrown == RaisedError(error, logged.log)
                    IN  [logged EXCEPT !.pc = "done",
                                       !.postReturn = Err(thrown),
                                       !.result = MethodResult(op.kind, Err(thrown))]

\* variant: get() repeats its call after a retryable error, as post() does
GetStep_RetryRetryable(op, resp) ==
  LET logged == [op EXCEPT !.log = Append(@, resp)]
      outcome == IF resp.type = "ok" THEN Ok(resp.data) ELSE Err(Interceptor(resp))
  IN  IF resp.type = "error" /\ resp.data.error.retryable /\ op.attempt < DefaultMaxRetries
      THEN IssueRequest(logged, op.attempt + 1, 0)
      ELSE [logged EXCEPT !.pc = "done", !.result = MethodResult(op.kind, outcome)]

\* get() from the arrival of its response to its end
GetStep(op, resp) ==
  LET logged == [op EXCEPT !.log = Append(@, resp)]
      outcome == IF resp.type = "ok" THEN Ok(resp.data) ELSE Err(Interceptor(resp))
  IN  [logged EXCEPT !.pc = "done", !.result = MethodResult(op.kind, outcome),
                     !.warned = WarnsTestMode(op.kind, resp)]

\* post() after the backoff delay: `continue`, attempt++, and the loop test;
\* `throw lastError` when the loop is left
PostResume(op, max, t) ==
  IF op.attempt + 1 <= max
  THEN IssueRequest(op, op.attempt + 1, t)
  ELSE [op EXCEPT !.pc = "done",
                  !.postReturn = Err(op.lastError),
                  !.result = MethodResult(op.kind, Err(op.lastError))]

(***************************************************************************)
(* The configuration cache of OtpClient                                    *)
(***************************************************************************)
NoWriter == [config |-> 0, fetchedAt |-> 0]
NoFetch == [at |-> 0, content |-> NoConfig, by |-> 0]
Cache == [serverConfig |-> serverConfig,
          serverConfigFetchedAt |-> serverConfigFetchedAt,
          writer |-> cacheWriter]

\* variant: the comparison with the TTL is the wrong way round
CacheValid_Inverted(forceRefresh, config, fetchedAt, t) ==
  /\ ~forceRefresh
  /\ config # NoConfig
  /\ fetchedAt # 0
  /\ t - fetchedAt > CONFIG_CACHE_TTL

\* variant: the age of the snapshot is not looked at
CacheValid_NoExpiry(forceRefresh, config, fetchedAt, t) ==
  /\ ~forceRefresh
  /\ config # NoConfig
  /\ fetchedAt # 0

\* the test at the head of getConfig: the cached value is returned
CacheValid(forceRefresh, config, fetchedAt, t) ==
  /\ ~forceRefresh
  /\ config # NoConfig
  /\ fetchedAt # 0
  /\ t - fetchedAt < CONFIG_CACHE_TTL

\* variant: the content is published and the timestamp is left as it was
StoreConfig_Torn(cache, config, t, id) ==
  [serverConfig |-> config,
   serverConfigFetchedAt |-> cache.serverConfigFetchedAt,
   writer |-> [config |-> id, fetchedAt |-> cache.writer.fetchedAt]]

\* this.serverConfig = config; this.serverConfigFetchedAt = Date.now();
StoreConfig(cache, config, t, id) ==
  [serverConfig |-> config, serverConfigFetchedAt |-> t,
   writer |-> [config |-> id, fetchedAt |-> id]]

\* variant: a failed fetch drops the snapshot
CacheAfterFetch_Evict(cache, resp, t, id) ==
  IF resp.type = "ok"
  THEN [serverConfig |-> resp.data, serverConfigFetchedAt |-> t,
        writer |-> [config |-> id, fetchedAt |-> id]]
  ELSE [serverConfig |-> NoConfig, serverConfigFetchedAt |-> 0, writer |-> NoWriter]

\* variant: a fetch that comes back to a populated cache leaves it alone
CacheAfterFetch_KeepFirst(cache, resp, t, id) ==
  IF resp.type = "ok" /\ cache.serverConfig = NoConfig
  THEN StoreConfig(cache, resp.data, t, id)
  ELSE cache

\* the cache after the fetch of getConfig has come back with resp: a rejected
\* await leaves getConfig before the two assignments
CacheAfterFetch(cache, resp, t, id) ==
  IF resp.type = "ok" THEN StoreConfig(cache, resp.data, t, id) ELSE cache

(***************************************************************************)
(* Actions                                                                 *)
(***************************************************************************)
\* the host may invoke an operation; slots are filled lowest first
Free(o) ==
  /\ o <= concurrency
  /\ ops[o].pc = "idle"
  /\ \A p \in Ops : p < o => ops[p].pc # "idle"

\* the cache as the invoked operation finds it
CacheAge ==
  IF serverConfig = NoConfig \/ serverConfigFetchedAt = 0 THEN "empty"
  ELSE IF now - serverConfigFetchedAt < CONFIG_CACHE_TTL THEN "fresh" ELSE "stale"

NewOp(kind, args) ==
  [IdleOp EXCEPT !.kind = kind, !.args = args, !.cacheAtStart = CacheAge,
                 !.found = [serverConfig |-> serverConfig,
                            serverConfigFetchedAt |-> serverConfigFetchedAt]]

Invoke(o, op) ==
  /\ ops' = [ops EXCEPT ![o] = [op EXCEPT !.id = o]]
  /\ UNCHANGED <<maxRetries, now, serverConfig, serverConfigFetchedAt,
                 cacheWriter, lastFetch, concurrency, http, wire, configBodies, auto>>

\* OtpClient.sendOtp up to the first await
SendOtp(o) ==
  /\ Free(o)
  /\ \E phoneNumber \in PhoneInputs, idempotencyKey \in KeyInputs, rnd \in RandomTokens :
       LET op == NewOp("sendOtp", [NoArgs EXCEPT !.phoneNumber = phoneNumber,
                                                  !.idempotencyKey = idempotencyKey])
           invalid == ValidatePhoneNumber(phoneNumber)
           key == IF idempotencyKey # NoKey
                  THEN idempotencyKey
                  ELSE GenerateIdempotencyKey(now, rnd)
       IN  Invoke(o, IF invalid # NoValue
                     THEN FailLocally(op, invalid)
                     ELSE PostBegin(op, SendRequest(phoneNumber, key), maxRetries, now))

\* OtpClient.verifyOtp up to the first await
VerifyOtp(o) ==
  /\ Free(o)
  /\ \E requestId \in RequestIdInputs, code \in CodeInputs :
       LET op == NewOp("verifyOtp", [NoArgs EXCEPT !.requestId = requestId,
                                                    !.code = code])
           invalid == ValidateVerify(requestId, code)
       IN  Invoke(o, IF invalid # NoValue
                     THEN FailLocally(op, invalid)
                     ELSE PostBegin(op, VerifyRequest(requestId, code), maxRetries, now))

\* OtpClient.resendOtp up to the first await
ResendOtp(o) ==
  /\ Free(o)
  /\ \E requestId \in RequestIdInputs, rnd \in RandomTokens :
       LET op == NewOp("resendOtp", [NoArgs EXCEPT !.requestId = requestId])
           invalid == ValidateRequestId(requestId)
       IN  Invoke(o, IF invalid # NoValue
                     THEN FailLocally(op, invalid)
                     ELSE PostBegin(op, ResendRequest(requestId,
                                          GenerateIdempotencyKey(now, rnd)),
                                    maxRetries, now))

\* OtpClient.getStatus / getStatusWithCode up to the await
GetStatus(o) ==
  /\ Free(o)
  /\ \E kind \in {"getStatus", "getStatusWithCode"}, requestId \in RequestIdInputs :
       LET op == NewOp(kind, [NoArgs EXCEPT !.requestId = requestId])
           invalid == ValidateRequestId(requestId)
           path == IF kind = "getStatus"
                   THEN <<"/api/v1/otp/", requestId>>
                   ELSE <<"/api/v1/otp/", requestId, "/status">>
       IN  Invoke(o, IF invalid # NoValue
                     THEN FailLocally(op, invalid)
                     ELSE GetBegin(op, GetRequest(path), now))

\* OtpClient.testConnection up to the await
TestConnection(o) ==
  /\ Free(o)
  /\ Invoke(o, GetBegin(NewOp("testConnection", NoArgs),
                        GetRequest(<<"/api/v1/sdk/test">>), now))

\* variant: a call that finds a fetch of another call in flight sends none
\* of its own and answers with what the cache holds
ConfigBegin_Coalesce(op, forceRefresh) ==
  IF \/ CacheValid(forceRefresh, serverConfig, serverConfigFetchedAt, now)
     \/ \E p \in Ops : ops[p].pc = "request" /\ ops[p].kind \in {"getConfig", "isTestMode"}
  THEN [op EXCEPT !.pc = "done", !.result = Ok(serverConfig)]
  ELSE GetBegin(op, GetRequest(<<"/api/v1/sdk/config">>), now)

\* getConfig(forceRefresh) up to the await, or to its return of the cached value
ConfigBegin(op, forceRefresh) ==
  IF CacheValid(forceRefresh, serverConfig, serverConfigFetchedAt, now)
  THEN [op EXCEPT !.pc = "done",
                  !.result = IF op.kind = "getConfig" THEN Ok(serverConfig)
                             ELSE MethodResult(op.kind, Ok(serverConfig))]
  ELSE GetBegin(op, GetRequest(<<"/api/v1/sdk/config">>), now)

\* OtpClient.getConfig
GetConfig(o) ==
  /\ Free(o)
  /\ \E forceRefresh \in BOOLEAN :
       Invoke(o, ConfigBegin(NewOp("getConfig", [NoArgs EXCEPT !.forceRefresh = forceRefresh]),
                             forceRefresh))

\* OtpClient.isTestMode: getConfig() inside try / catch
IsTestMode(o) ==
  /\ Free(o)
  /\ Invoke(o, ConfigBegin(NewOp("isTestMode", NoArgs), FALSE))

\* variant: the attempt counter is shared, so an attempt made by another
\* operation in progress counts against the attempts of this one
PostResponse_SharedCounter(o) ==
  /\ ops[o].pc = "request"
  /\ ops[o].kind \in PostKinds
  /\ \E resp \in ResponsesFor(ops[o].kind) :
       LET used == IF \E p \in Ops \ {o} : ops[p].attempt >= 1 THEN 1 ELSE 0
       IN  ops' = [ops EXCEPT ![o] = PostStep(ops[o], resp, maxRetries - used, now)]
  /\ UNCHANGED <<maxRetries, now, serverConfig, serverConfigFetchedAt,
                 cacheWriter, lastFetch, concurrency, http, wire, configBodies, auto>>

\* the response to the network call of a POST operation arrives
PostResponse(o) ==
  /\ ops[o].pc = "request"
  /\ ops[o].kind \in PostKinds
  /\ \E resp \in ResponsesFor(ops[o].kind) :
       ops' = [ops EXCEPT ![o] = PostStep(ops[o], resp, maxRetries, now)]
  /\ UNCHANGED <<maxRetries, now, serverConfig, serverConfigFetchedAt,
                 cacheWriter, lastFetch, concurrency, http, wire, configBodies, auto>>

\* the backoff timer of a POST operation expires
BackoffExpire(o) ==
  /\ ops[o].pc = "backoff"
  /\ now >= ops[o].wakeAt
  /\ ops' = [ops EXCEPT ![o] = PostResume(ops[o], maxRetries, now)]
  /\ UNCHANGED <<maxRetries, now, serverConfig, serverConfigFetchedAt,
                 cacheWriter, lastFetch, concurrency, http, wire, configBodies, auto>>

\* the response to getStatus, getStatusWithCode or testConnection arrives
GetResponse(o) ==
  /\ ops[o].pc = "request"
  /\ ops[o].kind \in {"getStatus", "getStatusWithCode", "testConnection"}
  /\ \E resp \in ResponsesFor(ops[o].kind) :
       ops' = [ops EXCEPT ![o] = GetStep(ops[o], resp)]
  /\ UNCHANGED <<maxRetries, now, serverConfig, serverConfigFetchedAt,
                 cacheWriter, lastFetch, concurrency, http, wire, configBodies, auto>>

\* the response to the fetch of getConfig arrives: the cache is written and
\* the configuration returned, or the error leaves getConfig
ConfigResponse(o) ==
  /\ ops[o].pc = "request"
  /\ ops[o].kind \in {"getConfig", "isTestMode"}
  /\ \E resp \in ResponsesFor(ops[o].kind) :
       LET after == CacheAfterFetch(Cache, resp, now, ops[o].id)
       IN  /\ ops' = [ops EXCEPT ![o] = GetStep(ops[o], resp)]
           /\ serverConfig' = after.serverConfig
           /\ serverConfigFetchedAt' = after.serverConfigFetchedAt
           /\ cacheWriter' = after.writer
           /\ lastFetch' = IF resp.type = "ok"
                           THEN [at |-> now, content |-> resp.data, by |-> ops[o].id]
                           ELSE lastFetch
  /\ UNCHANGED <<maxRetries, now, concurrency, http, wire, configBodies, auto>>

\* the caller has taken the result of a finished operation
Settle(o) ==
  /\ ops[o].pc = "done"
  /\ ops' = [ops EXCEPT ![o] = IdleOp]
  /\ UNCHANGED <<maxRetries, now, serverConfig, serverConfigFetchedAt,
                 cacheWriter, lastFetch, concurrency, http, wire, configBodies, auto>>

\* the host gives up an operation in progress (its own deadline has passed,
\* its caller has gone away): no public method takes a signal or returns a
\* handle, no request config carries one and the backoff timer is not kept,
\* so nothing of the client changes; the model notes that it happened
Abandon(o) ==
  /\ ops[o].pc \in {"request", "backoff"}
  /\ ~ops[o].abandoned
  /\ ops' = [ops EXCEPT ![o].abandoned = TRUE]
  /\ UNCHANGED <<maxRetries, now, serverConfig, serverConfigFetchedAt,
                 cacheWriter, lastFetch, concurrency, http, wire, configBodies, auto>>

\* the promise chain `this.getConfig().catch(...)` of the constructor:
\* enabled = config.autoConfig, op = the getConfig call, logged = what the
\* handler gave to console.warn, raised = what left the chain unhandled
AutoId == 3
NoAuto == [enabled |-> FALSE, op |-> IdleOp, logged |-> <<>>, raised |-> NoValue]

\* `if (config.autoConfig) { this.getConfig()...`: getConfig runs to its await
AutoConfigBegin(autoConfig) ==
  IF autoConfig
  THEN [NoAuto EXCEPT !.enabled = TRUE,
                      !.op = [ConfigBegin(NewOp("getConfig", NoArgs), FALSE) EXCEPT !.id = AutoId]]
  ELSE NoAuto

\* variant: the constructor calls getConfig() without a rejection handler
CatchAutoConfig_Unhandled(a, op) ==
  IF op.result.status = "error"
  THEN [a EXCEPT !.op = op, !.raised = op.result.value]
  ELSE [a EXCEPT !.op = op]

\* `.catch((error) => console.warn('Failed to auto-fetch SDK configuration:',
\* error.message))`
CatchAutoConfig(a, op) ==
  IF op.result.status = "error"
  THEN [a EXCEPT !.op = op, !.logged = Append(@, op.result.value.message)]
  ELSE [a EXCEPT !.op = op]

\* the response to the fetch that the constructor started arrives
AutoConfigResponse ==
  /\ auto.op.pc = "request"
  /\ \E resp \in ResponsesFor("getConfig") :
       LET after == CacheAfterFetch(Cache, resp, now, AutoId)
       IN  /\ auto' = CatchAutoConfig(auto, GetStep(auto.op, resp))
           /\ serverConfig' = after.serverConfig
           /\ serverConfigFetchedAt' = after.serverConfigFetchedAt
           /\ cacheWriter' = after.writer
           /\ lastFetch' = IF resp.type = "ok"
                           THEN [at |-> now, content |-> resp.data, by |-> AutoId]
                           ELSE lastFetch
  /\ UNCHANGED <<maxRetries, now, ops, concurrency, http, wire, configBodies>>

\* the host waits for an operation in its backoff delay: the clock reaches
\* the instant for which delay() set its timer
TimerDue(o) ==
  /\ ops[o].pc = "backoff"
  /\ now < ops[o].wakeAt
  /\ now' = ops[o].wakeAt
  /\ UNCHANGED <<maxRetries, serverConfig, serverConfigFetchedAt,
                 cacheWriter, lastFetch, ops, concurrency, http, wire, configBodies, auto>>

\* time passes
Tick ==
  /\ \E t \in Instants : t > now /\ now' = t
  /\ UNCHANGED <<maxRetries, serverConfig, serverConfigFetchedAt,
                 cacheWriter, lastFetch, ops, concurrency, http, wire, configBodies, auto>>

\* the state after `new OtpClient(config)` with config.maxRetries = c and
\* autoConfig off
Constructed(c) ==
  /\ maxRetries = HttpMaxRetries(c)
  /\ now = StartTime
  /\ serverConfig = NoConfig
  /\ serverConfigFetchedAt = 0
  /\ cacheWriter = NoWriter
  /\ lastFetch = NoFetch
  /\ ops = [o \in Ops |-> IdleOp]

\* a host that awaits each operation before it invokes the next; the client
\* is configured with maxRetries omitted, 0, or 1 .. MaxConfiguredRetries
Init ==
  \E c \in ConfigMaxRetries :
    /\ Constructed(c)
    /\ concurrency = 1
    /\ http = DefaultHttp
    /\ wire = ErrorPayloads
    /\ configBodies = ConfigPayloads
    /\ auto = NoAuto

\* a host that keeps two operations in progress, on a client constructed
\* with maxRetries omitted
InitConcurrent ==
  /\ Constructed(0)
  /\ concurrency = 2
  /\ http = DefaultHttp
  /\ wire = ErrorPayloads
  /\ configBodies = ConfigPayloads
  /\ auto = NoAuto

Next ==
  \/ \E o \in Ops : SendOtp(o)
  \/ \E o \in Ops : VerifyOtp(o)
  \/ \E o \in Ops : ResendOtp(o)
  \/ \E o \in Ops : GetStatus(o)
  \/ \E o \in Ops : TestConnection(o)
  \/ \E o \in Ops : GetConfig(o)
  \/ \E o \in Ops : IsTestMode(o)
  \/ \E o \in Ops : PostResponse(o)
  \/ \E o \in Ops : BackoffExpire(o)
  \/ \E o \in Ops : GetResponse(o)
  \/ \E o \in Ops : ConfigResponse(o)
  \/ \E o \in Ops : Settle(o)
  \/ Tick

Spec == Init /\ [][Next]_vars

\* concurrent use of the configuration operations
NextConfig ==
  \/ \E o \in Ops : GetConfig(o)
  \/ \E o \in Ops : IsTestMode(o)
  \/ \E o \in Ops : ConfigResponse(o)
  \/ \E o \in Ops : Settle(o)
  \/ Tick

SpecConfig == InitConcurrent /\ [][NextConfig]_vars

\* concurrent use of sendOtp and resendOtp on a client constructed with
\* maxRetries = 1: every operation is one network call and no backoff timer
\* is ever set
InitPost ==
  /\ Constructed(1)
  /\ concurrency = 2
  /\ http = DefaultHttp
  /\ wire = ErrorPayloads
  /\ configBodies = ConfigPayloads
  /\ auto = NoAuto

NextPost ==
  \/ \E o \in Ops : SendOtp(o)
  \/ \E o \in Ops : ResendOtp(o)
  \/ \E o \in Ops : PostResponse(o)
  \/ \E o \in Ops : Settle(o)
  \/ Tick

SpecPost == InitPost /\ [][NextPost]_vars

\* concurrent use of resendOtp on a client constructed with maxRetries = 2:
\* every operation has its own generated key and may be retried once
InitRetry ==
  /\ Constructed(2)
  /\ concurrency = 2
  /\ http = DefaultHttp
  /\ wire = ErrorPayloads
  /\ configBodies = ConfigPayloads
  /\ auto = NoAuto

NextRetry ==
  \/ \E o \in Ops : ResendOtp(o)
  \/ \E o \in Ops : PostResponse(o)
  \/ \E o \in Ops : BackoffExpire(o)
  \/ \E o \in Ops : Settle(o)
  \/ Tick

SpecRetry == InitRetry /\ [][NextRetry]_vars

\* sequential use of a client with the default maxRetries by a host that may
\* give up an operation in progress
InitCancel ==
  /\ Constructed(0)
  /\ concurrency = 1
  /\ http = DefaultHttp
  /\ wire = ErrorPayloads
  /\ configBodies = ConfigPayloads
  /\ auto = NoAuto

NextCancel ==
  \/ Next
  \/ \E o \in Ops : Abandon(o)

SpecCancel == InitCancel /\ [][NextCancel]_vars

\* sequential use of clients constructed with every combination of platform,
\* language and custom headers
InitHeaders ==
  \E platform \in PlatformInputs, language \in LanguageInputs,
     custom \in CustomHeaderInputs :
    /\ Constructed(0)
    /\ concurrency = 1
    /\ http = NewHttpClient(platform, language, custom)
    /\ wire = ErrorPayloads
    /\ configBodies = ConfigPayloads
    /\ auto = NoAuto

SpecHeaders == InitHeaders /\ [][Next]_vars

\* sequential use of a client whose service answers failed calls with any
\* body: flags that differ from the library's classes, unknown codes, bodies
\* that are no error envelope
InitWire ==
  /\ Constructed(0)
  /\ concurrency = 1
  /\ http = DefaultHttp
  /\ wire = AnyErrorPayloads
  /\ configBodies = ConfigPayloads
  /\ auto = NoAuto

SpecWire == InitWire /\ [][Next]_vars

\* concurrent use of getConfig and isTestMode on a client whose service
\* answers a configuration fetch with any body
InitAnyConfig ==
  /\ Constructed(0)
  /\ concurrency = 2
  /\ http = DefaultHttp
  /\ wire = ErrorPayloads
  /\ configBodies = AnyConfigPayloads
  /\ auto = NoAuto

SpecAnyConfig == InitAnyConfig /\ [][NextConfig]_vars

\* use of getConfig on a client constructed with autoConfig on or off, by a
\* host that lets at most two fetches of the configuration overlap: its own
\* two, or the one of the constructor and one of its own
InitAuto ==
  \E autoConfig \in BOOLEAN :
    /\ Constructed(0)
    /\ concurrency = IF autoConfig THEN 1 ELSE 2
    /\ http = DefaultHttp
    /\ wire = ErrorPayloads
    /\ configBodies = ConfigPayloads
    /\ auto = AutoConfigBegin(autoConfig)

NextAuto ==
  \/ \E o \in Ops : GetConfig(o)
  \/ \E o \in Ops : ConfigResponse(o)
  \/ \E o \in Ops : Settle(o)
  \/ AutoConfigResponse
  \/ Tick

SpecAuto == InitAuto /\ [][NextAuto]_vars

\* sequential POST operations, invoked no later than LastInvocation, on a
\* client configured with any maxRetries; every network call is answered and
\* every timer of delay() fires
LastInvocation == StartTime + 1000

InitLive ==
  \E c \in ConfigMaxRetries :
    /\ Constructed(c)
    /\ concurrency = 1
    /\ http = DefaultHttp
    /\ wire = ErrorPayloads
    /\ configBodies = ConfigPayloads
    /\ auto = NoAuto

InvokePost(o) ==
  /\ now <= LastInvocation
  /\ \/ SendOtp(o)
     \/ VerifyOtp(o)
     \/ ResendOtp(o)

NextLive ==
  \/ \E o \in Ops : InvokePost(o)
  \/ \E o \in Ops : PostResponse(o)
  \/ \E o \in Ops : TimerDue(o)
  \/ \E o \in Ops : BackoffExpire(o)
  \/ \E o \in Ops : Settle(o)

Responsive ==
  \A o \in Ops :
    /\ WF_vars(PostResponse(o))
    /\ WF_vars(TimerDue(o))
    /\ WF_vars(BackoffExpire(o))

SpecLive == InitLive /\ [][NextLive]_vars /\ Responsive

\* sequential use of clients configured with any number as maxRetries: the
\* type of config.maxRetries is `number` and the constructor checks nothing,
\* so a negative value is among them
AnyMaxRetries == -1 .. MaxConfiguredRetries

InitAnyRetries ==
  \E c \in AnyMaxRetries :
    /\ Constructed(c)
    /\ concurrency = 1
    /\ http = DefaultHttp
    /\ wire = ErrorPayloads
    /\ configBodies = ConfigPayloads
    /\ auto = NoAuto

SpecAnyRetries == InitAnyRetries /\ [][Next]_vars

\* sequential use of every operation on a client constructed with
\* maxRetries = 2, so that the cache is empty for some operations and
\* populated for others
InitFrame ==
  /\ Constructed(2)
  /\ concurrency = 1
  /\ http = DefaultHttp
  /\ wire = ErrorPayloads
  /\ configBodies = ConfigPayloads
  /\ auto = NoAuto

SpecFrame == InitFrame /\ [][Next]_vars

(***************************************************************************)
(* Properties                                                              *)
(***************************************************************************)
Last(q) == q[Len(q)]
PostOps == {o \in Ops : ops[o].kind \in PostKinds}

\* the attempt that got this response failed with an error whose retryable
\* flag is true / is false
RetryableFailure(resp) ==
  resp.type = "error" /\ resp.data.error.retryable
NonRetryableFailure(resp) ==
  resp.type = "error" /\ ~resp.data.error.retryable

\* the first n responses of the log are all retryable failures
RetryablePrefix(log, n) == \A i \in 1 .. n : RetryableFailure(log[i])

\* C1: a POST operation with maximum attempts N >= 1 whose attempts 1..k-1
\* fail retryably and whose attempt k <= N succeeds has made exactly k network
\* calls and returns the payload of the k-th response; while fewer than N
\* attempts have failed retryably the operation goes on (backoff, then the
\* next call); after N retryable failures it has made exactly N calls and has
\* failed.
C1_RetryUntilSuccessOrExhaustion ==
  \A o \in PostOps :
    LET op == ops[o]
        k == Len(op.log)
    IN  (maxRetries >= 1 /\ k >= 1 /\ RetryablePrefix(op.log, k - 1)) =>
          /\ k <= maxRetries
          /\ Len(op.sent) \in {k, k + 1}
          /\ Len(op.sent) <= maxRetries
          /\ Last(op.log).type = "ok" =>
               /\ op.pc = "done"
               /\ Len(op.sent) = k
               /\ op.postReturn = Ok(Last(op.log).data)
          /\ (RetryableFailure(Last(op.log)) /\ k < maxRetries) =>
               /\ op.pc \in {"backoff", "request"}
               /\ op.pc = "backoff" => Len(op.sent) = k
               /\ op.pc = "request" => Len(op.sent) = k + 1
          /\ (RetryableFailure(Last(op.log)) /\ k = maxRetries) =>
               /\ op.pc = "done"
               /\ Len(op.sent) = maxRetries
               /\ op.postReturn.status = "error"
               /\ op.result.status = "error"

\* witness of C1: N = 3, two 503 failures, then a success: 3 calls and the
\* third response as result
C1_Witness ==
  \E o \in PostOps :
    /\ maxRetries = 3
    /\ ops[o].pc = "done"
    /\ Len(ops[o].log) = 3
    /\ \A i \in 1 .. 2 : /\ ops[o].log[i].type = "error"
                         /\ ops[o].log[i].data.error.statusCode = 503
    /\ ops[o].log[3].type = "ok"
    /\ Len(ops[o].sent) = 3
    /\ ops[o].postReturn = Ok(ops[o].log[3].data)

\* C2: once an attempt of a POST operation has failed with an error whose
\* retryable flag is false, the operation is over and no further call is
\* made; and a POST operation that ends in failure raises the error of its
\* last attempt, field by field what that attempt's response carried.
C2_NoRetryAndLastErrorRaised ==
  \A o \in PostOps :
    LET op == ops[o]
        k == Len(op.log)
    IN  /\ \A i \in 1 .. k :
             NonRetryableFailure(op.log[i]) =>
               /\ i = k
               /\ Len(op.sent) = i
               /\ op.pc = "done"
               /\ op.waits = SubSeq(op.waits, 1, i - 1)
        /\ (op.pc = "done" /\ op.result.status = "error" /\ Len(op.sent) >= 1) =>
             /\ k = Len(op.sent)
             /\ Last(op.log).type # "ok"
             /\ op.result = op.postReturn
             /\ op.postReturn.value = Interceptor(Last(op.log))
             /\ Last(op.log).type = "error" =>
                  LET e == op.result.value
                      w == Last(op.log).data
                  IN  /\ e.code = w.error.code
                      /\ e.statusCode = w.error.statusCode
                      /\ e.retryable = w.error.retryable
                      /\ e.message = w.error.message
                      /\ e.requestId = w.meta.requestId

\* witness of C2: a retryable failure, then a non-retryable one, which is
\* the error raised
C2_Witness ==
  \E o \in PostOps :
    /\ ops[o].pc = "done"
    /\ Len(ops[o].log) = 2
    /\ RetryableFailure(ops[o].log[1])
    /\ NonRetryableFailure(ops[o].log[2])
    /\ Len(ops[o].sent) = 2
    /\ ops[o].result.status = "error"
    /\ ops[o].result.value.code = "VALIDATION_ERROR"

\* C3: every network attempt of one sendOtp or resendOtp invocation carries
\* the same path, the same body and the same X-Idempotency-Key, which is the
\* key chosen before the first attempt.
C3_SameRequestOnEveryAttempt ==
  \A o \in Ops :
    ops[o].kind \in {"sendOtp", "resendOtp"} =>
      \A i \in 1 .. Len(ops[o].sent) :
        /\ ops[o].sent[i].path = ops[o].sent[1].path
        /\ ops[o].sent[i].body = ops[o].sent[1].body
        /\ ops[o].sent[i].key = ops[o].sent[1].key
        /\ ops[o].sent[i].key # NoKey
        /\ ops[o].sent[i].key = ops[o].req.key
        /\ ops[o].args.idempotencyKey # NoKey =>
             ops[o].sent[i].key = ops[o].args.idempotencyKey

\* witness of C3: a third attempt of a sendOtp with a generated key, made
\* after the clock has moved on from the instant of the key
C3_Witness ==
  \E o \in Ops :
    /\ ops[o].kind = "sendOtp"
    /\ ops[o].args.idempotencyKey = NoKey
    /\ Len(ops[o].sent) = 3
    /\ now > ops[o].sent[1].key.ts

\* the delays 1s, 2s, 4s, 8s, 16s in milliseconds
ExpectedWaits == <<1000, 2000, 4000, 8000, 16000>>

RECURSIVE SumSeq(_)
SumSeq(q) == IF q = <<>> THEN 0 ELSE q[1] + SumSeq(Tail(q))

\* the waits of one POST operation: one per failed attempt that is retried
C4_WaitsOf(op) ==
  /\ Len(op.waits) <= Len(ExpectedWaits)
  /\ op.waits = SubSeq(ExpectedWaits, 1, Len(op.waits))
  /\ Len(op.waits) = (IF op.pc = "backoff" THEN Len(op.sent) ELSE Len(op.sent) - 1)
  /\ Len(op.waits) <= maxRetries - 1
  /\ (op.pc = "done" /\ Len(op.log) = maxRetries
        /\ RetryablePrefix(op.log, maxRetries)) =>
       SumSeq(op.waits) = ((2 ^ (maxRetries - 1)) - 1) * 1000

\* C4: after failed attempt k (retryable, k < N) the transport sets a timer
\* of 2^(k-1) seconds and makes attempt k+1 only once it has expired; there
\* is no wait before the first attempt nor after the last, and N retryable
\* failures wait 2^(N-1) - 1 seconds in total.
C4_BackoffSchedule ==
  /\ [](\A o \in PostOps : Len(ops[o].sent) >= 1 => C4_WaitsOf(ops[o]))
  /\ [][\A o \in Ops :
          /\ (ops[o].pc = "request" /\ ops'[o].pc = "backoff") =>
               /\ ops'[o].wakeAt = now + ExpectedWaits[ops[o].attempt]
               /\ ops'[o].sent = ops[o].sent
          /\ (ops[o].pc = "backoff" /\ ops'[o].pc # "backoff") =>
               /\ now >= ops[o].wakeAt
               /\ ops'[o].pc = "request"
               /\ Len(ops'[o].sent) = Len(ops[o].sent) + 1
          /\ (ops[o].pc = "request" /\ ops'[o].pc = "done") =>
               ops'[o].waits = ops[o].waits]_vars

\* witness of C4: four attempts that all failed retryably, after waits of
\* 1s, 2s and 4s
C4_Witness ==
  \E o \in PostOps :
    /\ maxRetries = 4
    /\ ops[o].pc = "done"
    /\ Len(ops[o].log) = 4
    /\ RetryablePrefix(ops[o].log, 4)
    /\ ops[o].waits = <<1000, 2000, 4000>>

ConfigPath == <<"/api/v1/sdk/config">>

\* operation o is invoked in this step as getConfig(forceRefresh)
BeginsGetConfig(o, forceRefresh) ==
  /\ ops[o].pc = "idle"
  /\ ops'[o].pc # "idle"
  /\ ops'[o].kind = "getConfig"
  /\ ops'[o].args.forceRefresh = forceRefresh

\* the fetch of operation o (getConfig, or the getConfig of isTestMode)
\* comes back in this step
FetchReturns(o) ==
  /\ ops[o].kind \in {"getConfig", "isTestMode"}
  /\ ops[o].pc = "request"
  /\ ops'[o].pc = "done"

\* C5: once a configuration fetch has succeeded, a getConfig() that starts
\* less than one hour after it makes no network call and returns the cached
\* content, which is the content of the latest successful fetch; a
\* getConfig(true) makes a network call whatever the age of the cache.
C5_CacheHitWithinTtl ==
  [][\A o \in Ops :
       /\ (BeginsGetConfig(o, FALSE) /\ lastFetch.at # 0
             /\ now - lastFetch.at < 3600000) =>
            /\ ops'[o].pc = "done"
            /\ ops'[o].sent = <<>>
            /\ ops'[o].result = Ok(lastFetch.content)
            /\ lastFetch.content \in ConfigPayloads
       /\ BeginsGetConfig(o, TRUE) =>
            /\ ops'[o].pc = "request"
            /\ Len(ops'[o].sent) = 1
            /\ ops'[o].sent[1].method = "GET"
            /\ ops'[o].sent[1].path = ConfigPath]_vars

\* witness of C5: a getConfig() served from a fresh cache without a call
C5_Witness ==
  \E o \in Ops :
    /\ ops[o].kind = "getConfig"
    /\ ~ops[o].args.forceRefresh
    /\ ops[o].cacheAtStart = "fresh"
    /\ ops[o].pc = "done"
    /\ ops[o].sent = <<>>
    /\ ops[o].result = Ok(serverConfig)
    /\ now > lastFetch.at

\* C6: a getConfig() that starts when the latest snapshot is one hour old or
\* older makes a network call; when the call succeeds the snapshot is
\* replaced and the new content returned, when it fails the error is raised.
C6_StaleCacheRefetched ==
  [][\A o \in Ops :
       /\ (BeginsGetConfig(o, FALSE) /\ lastFetch.at # 0
             /\ now - lastFetch.at >= 3600000) =>
            /\ ops'[o].pc = "request"
            /\ Len(ops'[o].sent) = 1
            /\ ops'[o].sent[1].path = ConfigPath
            /\ ops'[o].cacheAtStart = "stale"
       /\ (FetchReturns(o) /\ ops[o].kind = "getConfig"
             /\ ops[o].cacheAtStart = "stale") =>
            LET resp == Last(ops'[o].log)
            IN  /\ Len(ops'[o].sent) = 1
                /\ resp.type = "ok" =>
                     /\ ops'[o].result = Ok(resp.data)
                     /\ serverConfig' = resp.data
                     /\ serverConfigFetchedAt' = now
                /\ resp.type # "ok" =>
                     /\ ops'[o].result = Err(Interceptor(resp))
                     /\ ops'[o].result.value \notin ConfigPayloads]_vars

\* witness of C6: a getConfig() that found a stale snapshot, fetched, and
\* raised the error of the fetch
C6_Witness ==
  \E o \in Ops :
    /\ ops[o].kind = "getConfig"
    /\ ~ops[o].args.forceRefresh
    /\ ops[o].cacheAtStart = "stale"
    /\ ops[o].pc = "done"
    /\ Len(ops[o].sent) = 1
    /\ ops[o].result.status = "error"
    /\ serverConfig # NoConfig

\* C7: the cached content and the cached timestamp are both absent, or both
\* present and written by the same fetch (the latest one that succeeded),
\* and what a call returns is the whole content of one fetch.
C7_SnapshotNeverTorn ==
  /\ \/ /\ serverConfig = NoConfig
        /\ serverConfigFetchedAt = 0
        /\ cacheWriter = NoWriter
     \/ /\ serverConfig \in ConfigPayloads
        /\ serverConfigFetchedAt # 0
        /\ cacheWriter.config # 0
        /\ cacheWriter.config = cacheWriter.fetchedAt
        /\ lastFetch = [at |-> serverConfigFetchedAt, content |-> serverConfig,
                        by |-> cacheWriter.config]
  /\ \A o \in Ops :
       (ops[o].kind = "getConfig" /\ ops[o].pc = "done"
          /\ ops[o].result.status = "ok") =>
         ops[o].result.value \in ConfigPayloads

\* witness of C7: a fetch has written the cache while the fetch of another
\* call, started before that, is still in flight
C7_Witness ==
  \E o, p \in Ops :
    /\ o # p
    /\ ops[o].pc = "request"
    /\ ops[o].cacheAtStart = "empty"
    /\ ops[p].pc = "done"
    /\ ops[p].kind \in {"getConfig", "isTestMode"}
    /\ Len(ops[p].sent) = 1
    /\ Last(ops[p].log).type = "ok"
    /\ cacheWriter.config = ops[p].id
    /\ serverConfig = Last(ops[p].log).data

WellFormedE164(s) ==
  /\ Len(s) \in 3 .. 16
  /\ s[1] = "+"
  /\ s[2] \in {"1", "2", "3", "4", "5", "6", "7", "8", "9"}
  /\ \A i \in 3 .. Len(s) : s[i] \in {"0", "1", "2", "3", "4", "5", "6", "7", "8", "9"}

\* the operation has failed before any network call, key or retry attempt
FailedLocally(op) ==
  /\ op.pc = "done"
  /\ op.result.status = "error"
  /\ op.result.value.name = "Error"
  /\ op.sent = <<>>
  /\ op.log = <<>>
  /\ op.attempt = 0
  /\ op.waits = <<>>
  /\ op.req = NoRequest

\* C9: sendOtp with a phone number that is not '+', a digit 1-9 and 1 to 14
\* further digits fails with no network call, no idempotency key and no
\* attempt; with a phone number of that form the send request is issued.
C9_PhoneValidatedBeforeNetwork ==
  \A o \in Ops :
    ops[o].kind = "sendOtp" =>
      IF WellFormedE164(ops[o].args.phoneNumber)
      THEN /\ Len(ops[o].sent) >= 1
           /\ ops[o].sent[1].method = "POST"
           /\ ops[o].sent[1].path = <<"/api/v1/otp/send">>
           /\ ops[o].sent[1].body.phoneNumber = ops[o].args.phoneNumber
      ELSE FailedLocally(ops[o])

\* witness of C9: sendOtp("123456") has failed without a network call
C9_Witness ==
  \E o \in Ops :
    /\ ops[o].kind = "sendOtp"
    /\ ops[o].args.phoneNumber = <<"1", "2", "3", "4", "5", "6">>
    /\ FailedLocally(ops[o])

\* C10: verifyOtp with an empty requestId, or a code that is missing or
\* shorter than 4 or longer than 8, and resendOtp, getStatus and
\* getStatusWithCode with an empty requestId, fail with no network call;
\* verifyOtp with a requestId and a code of length 4..8 issues the verify
\* request.
C10_ArgumentsValidatedBeforeNetwork ==
  \A o \in Ops :
    LET op == ops[o]
    IN  /\ op.kind = "verifyOtp" =>
             IF op.args.requestId # "" /\ Len(op.args.code) \in 4 .. 8
             THEN /\ Len(op.sent) >= 1
                  /\ op.sent[1].method = "POST"
                  /\ op.sent[1].path = <<"/api/v1/otp/verify">>
                  /\ op.sent[1].body.requestId = op.args.requestId
                  /\ op.sent[1].body.code = op.args.code
             ELSE FailedLocally(op)
        /\ (op.kind \in {"resendOtp", "getStatus", "getStatusWithCode"}
              /\ op.args.requestId = "") =>
             FailedLocally(op)

\* witness of C10: verifyOtp with the code "123" has failed without a call
C10_Witness ==
  \E o \in Ops :
    /\ ops[o].kind = "verifyOtp"
    /\ ops[o].args.requestId = "req_1"
    /\ ops[o].args.code = "123"
    /\ FailedLocally(ops[o])

\* the operations that turn every failure into the value false
Swallowing == {"testConnection", "isTestMode"}

\* C11: an attempt that fails without response data (connection reset, DNS
\* failure, timeout) is the last attempt of its operation, whatever came
\* before it and however many attempts remain: no wait follows it, no further
\* call is made, and what the transport throws is the fault itself, which is
\* no OtpError; every operation but testConnection and isTestMode raises it.
C11_TransportFaultRaisedUnretried ==
  \A o \in Ops :
    LET op == ops[o]
    IN  \A i \in 1 .. Len(op.log) :
          op.log[i].type = "fault" =>
            /\ i = Len(op.log)
            /\ Len(op.sent) = i
            /\ Len(op.waits) = i - 1
            /\ op.pc = "done"
            /\ op.kind \in PostKinds =>
                 /\ op.postReturn = Err(TransportFault)
                 /\ op.lastError = TransportFault
            /\ op.kind \notin Swallowing =>
                 /\ op.result = Err(TransportFault)
                 /\ ~IsOtpError(op.result.value)
                 /\ op.result.value.name = "AxiosError"

\* witness of C11: two retryable failures, then a fault on the third of four
\* attempts: the fault is raised and the fourth attempt is never made
C11_Witness ==
  \E o \in PostOps :
    /\ maxRetries = 4
    /\ ops[o].pc = "done"
    /\ Len(ops[o].log) = 3
    /\ RetryablePrefix(ops[o].log, 2)
    /\ ops[o].log[3].type = "fault"
    /\ Len(ops[o].sent) = 3
    /\ ops[o].result = Err(TransportFault)

\* the X-Idempotency-Key header of the first network call of an operation
KeySent(op) == op.sent[1].key

\* C12: two sendOtp invocations in progress that were given no
\* idempotencyKey have sent different X-Idempotency-Key values.
C12_GeneratedKeysDistinct ==
  \A o, p \in Ops :
    (/\ o # p
     /\ ops[o].kind = "sendOtp" /\ ops[p].kind = "sendOtp"
     /\ ops[o].args.idempotencyKey = NoKey /\ ops[p].args.idempotencyKey = NoKey
     /\ ops[o].sent # <<>> /\ ops[p].sent # <<>>) =>
      KeySent(ops[o]) # KeySent(ops[p])

\* operation p is invoked in this step as resendOtp(requestId) and issues its
\* request
BeginsResend(p, requestId) ==
  /\ ops[p].pc = "idle"
  /\ ops'[p].kind = "resendOtp"
  /\ ops'[p].args.requestId = requestId
  /\ ops'[p].sent # <<>>

\* C13: sendOtp sends a supplied idempotencyKey as it is and generates a key
\* only when none was supplied; two resendOtp calls for one requestId carry
\* different keys; and a resendOtp invoked after the sendOtp that returned its
\* requestId does not carry the key of that send.
C13_SuppliedKeyVerbatimResendFresh ==
  /\ [](\A o \in Ops :
          (ops[o].kind = "sendOtp" /\ ops[o].sent # <<>>) =>
            IF ops[o].args.idempotencyKey # NoKey
            THEN KeySent(ops[o]) = ops[o].args.idempotencyKey
            ELSE KeySent(ops[o]).ts # 0)
  /\ [](\A o, p \in Ops :
          (/\ o # p
           /\ ops[o].kind = "resendOtp" /\ ops[p].kind = "resendOtp"
           /\ ops[o].sent # <<>> /\ ops[p].sent # <<>>
           /\ ops[o].args.requestId = ops[p].args.requestId) =>
            KeySent(ops[o]) # KeySent(ops[p]))
  /\ [][\A o, p \in Ops :
          (/\ ops[o].kind = "sendOtp"
           /\ ops[o].pc = "done"
           /\ ops[o].result.status = "ok"
           /\ BeginsResend(p, ops[o].result.value.requestId)) =>
            KeySent(ops'[p]) # KeySent(ops[o])]_vars

\* C14: testConnection makes exactly one network call, never ends with an
\* error, and returns true when that call succeeded and false when it failed,
\* whatever the failure (non-retryable error, retryable error, fault).
C14_TestConnectionReturnsBoolean ==
  \A o \in Ops :
    ops[o].kind = "testConnection" =>
      /\ Len(ops[o].sent) = 1
      /\ ops[o].sent[1].method = "GET"
      /\ ops[o].result.status # "error"
      /\ ops[o].pc \in {"request", "done"}
      /\ ops[o].pc = "done" =>
           /\ Len(ops[o].log) = 1
           /\ ops[o].result.status = "ok"
           /\ ops[o].result.value \in BOOLEAN
           /\ ops[o].result.value = (ops[o].log[1].type = "ok")

\* witness of C14: a testConnection whose call ended in a connectivity fault
\* has returned false
C14_Witness ==
  \E o \in Ops :
    /\ ops[o].kind = "testConnection"
    /\ ops[o].pc = "done"
    /\ ops[o].log = <<FaultResponse>>
    /\ ops[o].result = Ok(FALSE)

\* operation o is invoked in this step as isTestMode()
BeginsIsTestMode(o) ==
  /\ ops[o].pc = "idle"
  /\ ops'[o].pc # "idle"
  /\ ops'[o].kind = "isTestMode"

\* C15: isTestMode never ends with an error; with a fresh snapshot it makes
\* no network call and returns the flag of the snapshot; otherwise it makes
\* the one fetch of getConfig(), returns the flag of the fetched
\* configuration and leaves it in the cache, or returns false when the fetch
\* failed; and a getConfig() that starts inside the TTL window of the fetch
\* of a finished isTestMode makes no network call.
C15_IsTestModeThroughGetConfig ==
  /\ [](\A o \in Ops :
          ops[o].kind = "isTestMode" =>
            /\ ops[o].result.status # "error"
            /\ Len(ops[o].sent) <= 1
            /\ ops[o].cacheAtStart = "fresh" <=> ops[o].sent = <<>>
            /\ ops[o].pc = "done" =>
                 /\ ops[o].result.status = "ok"
                 /\ ops[o].result.value \in BOOLEAN
                 /\ ops[o].sent = <<>> =>
                      ops[o].result.value = ops[o].found.serverConfig.features.testMode
                 /\ ops[o].sent # <<>> =>
                      ops[o].result.value =
                        (IF Last(ops[o].log).type = "ok"
                         THEN Last(ops[o].log).data.features.testMode
                         ELSE FALSE))
  /\ [][\A o \in Ops :
          /\ (FetchReturns(o) /\ ops[o].kind = "isTestMode"
                /\ Last(ops'[o].log).type = "ok") =>
               /\ serverConfig' = Last(ops'[o].log).data
               /\ serverConfigFetchedAt' = now
          /\ \A p \in Ops :
               (/\ ops[o].kind = "isTestMode"
                /\ ops[o].pc = "done"
                /\ ops[o].log # <<>>
                /\ Last(ops[o].log).type = "ok"
                /\ lastFetch.by = ops[o].id
                /\ now - lastFetch.at < 3600000
                /\ BeginsGetConfig(p, FALSE)) =>
                 /\ ops'[p].pc = "done"
                 /\ ops'[p].sent = <<>>
                 /\ ops'[p].result = Ok(Last(ops[o].log).data)]_vars

\* witness of C15: an isTestMode that found a stale snapshot and whose fetch
\* ended in a connectivity fault has returned false
C15_Witness ==
  \E o \in Ops :
    /\ ops[o].kind = "isTestMode"
    /\ ops[o].pc = "done"
    /\ ops[o].cacheAtStart = "stale"
    /\ Len(ops[o].log) = 1
    /\ ops[o].log[1].type = "fault"
    /\ ops[o].result = Ok(FALSE)
    /\ serverConfig # NoConfig

\* the invocation reaches the network: the arguments are valid and no fresh
\* snapshot answers it
ReachesNetwork(op) ==
  CASE op.kind \in {"getStatus", "getStatusWithCode"} -> op.args.requestId # ""
    [] op.kind = "getConfig" -> op.args.forceRefresh \/ op.cacheAtStart # "fresh"
    [] op.kind = "isTestMode" -> op.cacheAtStart # "fresh"
    [] OTHER -> TRUE

\* C16: getStatus, getStatusWithCode, the fetch of getConfig (the one of
\* isTestMode included) and testConnection make one network call and no more:
\* the operation ends with the first response, with no backoff wait, and a
\* failure whose retryable flag is true is raised as it is (turned into
\* false by testConnection and isTestMode).
C16_ReadsNeverRetried ==
  \A o \in Ops :
    LET op == ops[o]
    IN  op.kind \in GetKinds =>
          /\ Len(op.sent) = (IF ReachesNetwork(op) THEN 1 ELSE 0)
          /\ op.waits = <<>>
          /\ op.pc # "backoff"
          /\ op.log # <<>> =>
               /\ Len(op.log) = 1
               /\ op.pc = "done"
               /\ RetryableFailure(op.log[1]) =>
                    IF op.kind \in Swallowing
                    THEN op.result = Ok(FALSE)
                    ELSE /\ op.result = Err(FromApiError(op.log[1].data))
                         /\ op.result.value.retryable

\* witness of C16: a getStatus that got a 503 with retryable = true has
\* raised it after its single call
C16_Witness ==
  \E o \in Ops :
    /\ ops[o].kind = "getStatus"
    /\ ops[o].pc = "done"
    /\ Len(ops[o].sent) = 1
    /\ Len(ops[o].log) = 1
    /\ RetryableFailure(ops[o].log[1])
    /\ ops[o].log[1].data.error.statusCode = 503
    /\ ops[o].result.status = "error"
    /\ ops[o].result.value.retryable

IdentificationHeaders ==
  {"X-OTP-SDK-Version", "X-OTP-SDK-Platform", "X-OTP-SDK-Language"}

\* C17: every request sent carries the three identification headers with
\* the version of the SDK and the platform and language of the client,
\* whatever custom headers the client was constructed with.
C17_IdentificationHeadersWin ==
  \A o \in Ops :
    \A i \in 1 .. Len(ops[o].sent) :
      LET h == RequestHeaders(http.headers, ops[o].sent[i])
      IN  /\ IdentificationHeaders \subseteq DOMAIN h
          /\ h["X-OTP-SDK-Version"] = SDK_VERSION
          /\ h["X-OTP-SDK-Platform"] = http.platform
          /\ h["X-OTP-SDK-Language"] = http.language

\* the body of this failed call is an error envelope with both sections
Envelope(resp) ==
  resp.type = "error" /\ {"error", "meta"} \subseteq DOMAIN resp.data

\* attempt i of the operation was followed by a backoff wait and, once that
\* was over, by another attempt
Retried(op, i) ==
  i < Len(op.sent) \/ (i = Len(op.log) /\ op.pc = "backoff")

\* the retryable flag the error classes of the library give these kinds
RetryableOfKind(code) ==
  code \in {"RATE_LIMIT_EXCEEDED", "SERVICE_UNAVAILABLE"}
FixedKinds ==
  {"RATE_LIMIT_EXCEEDED", "SERVICE_UNAVAILABLE", "VALIDATION_ERROR", "OTP_NOT_FOUND"}

C19_TranslationNeverRaises ==
  \A o \in Ops :
    LET op == ops[o]
    IN  /\ (op.kind \in PostKinds /\ op.log # <<>> /\ Last(op.log).type = "error") =>
             IsOtpError(op.lastError)
        /\ (op.pc = "done" /\ op.log # <<>> /\ Last(op.log).type = "error"
              /\ op.kind \notin Swallowing) =>
             /\ op.result.status = "error"
             /\ IsOtpError(op.result.value)
        /\ \A i \in 1 .. Len(op.log) :
             (Envelope(op.log[i]) /\ op.log[i].data.error.code \notin KnownCodes) =>
               /\ ~Retried(op, i)
               /\ (op.pc = "done" /\ op.kind \notin Swallowing) =>
                    ~op.result.value.retryable

\* C20 as stated: every POST request sent, the one of verifyOtp included,
\* carries an X-Idempotency-Key header.
C20_EveryPostCarriesKey ==
  \A o \in Ops :
    \A i \in 1 .. Len(ops[o].sent) :
      ops[o].sent[i].method = "POST" =>
        "X-Idempotency-Key" \in DOMAIN RequestHeaders(http.headers, ops[o].sent[i])

\* C20, amended: every attempt of sendOtp and resendOtp carries the
\* X-Idempotency-Key of the invocation; no attempt of verifyOtp, first or
\* repeated, carries one; GET requests carry none.
C20_KeyOnSendAndResendOnly ==
  \A o \in Ops :
    \A i \in 1 .. Len(ops[o].sent) :
      LET h == RequestHeaders(http.headers, ops[o].sent[i])
      IN  IF ops[o].kind \in {"sendOtp", "resendOtp"}
          THEN /\ "X-Idempotency-Key" \in DOMAIN h
               /\ h["X-Idempotency-Key"] = ops[o].req.key
               /\ ops[o].req.key # NoKey
          ELSE "X-Idempotency-Key" \notin DOMAIN h

\* witness of C20: the third attempt of a verifyOtp is under way and none of
\* its three requests carries a key
C20_Witness ==
  \E o \in Ops :
    /\ ops[o].kind = "verifyOtp"
    /\ Len(ops[o].sent) = 3
    /\ RetryablePrefix(ops[o].log, 2)
    /\ \A i \in 1 .. 3 :
         "X-Idempotency-Key" \notin DOMAIN RequestHeaders(http.headers, ops[o].sent[i])

\* what one POST operation has done is what its own responses call for: its
\* attempts are within the maximum, every request is the one it built, its
\* waits are 1s, 2s, ... and each failed attempt was retried exactly when its
\* own error was retryable and its own attempts were not used up
C21_OwnCourse(op) ==
  /\ Len(op.sent) <= maxRetries
  /\ op.attempt = Len(op.sent)
  /\ \A i \in 1 .. Len(op.sent) : op.sent[i] = op.req
  /\ op.waits = SubSeq(ExpectedWaits, 1, Len(op.waits))
  /\ Len(op.waits) = (IF op.pc = "backoff" THEN Len(op.sent) ELSE Len(op.sent) - 1)
  /\ \A i \in 1 .. Len(op.log) :
       Retried(op, i) <=> (RetryableFailure(op.log[i]) /\ i < maxRetries)

\* C21: with two POST operations in progress, each follows its own course
\* (attempt counter, backoff sequence, request and key), and a step of one
\* operation leaves the other as it was: its attempts, its timer and
\* what it has sent and will send.
C21_ConcurrentOperationsIndependent ==
  /\ [](\A o \in PostOps : ops[o].sent # <<>> => C21_OwnCourse(ops[o]))
  /\ [][\A o \in Ops :
          /\ ops'[o] # ops[o] => \A p \in Ops \ {o} : ops'[p] = ops[p]
          /\ (ops[o].pc = "request" /\ ops'[o].pc = "backoff") =>
               ops'[o].wakeAt = now + ExpectedWaits[ops[o].attempt]
          /\ (ops[o].pc = "backoff" /\ ops'[o].pc = "request") =>
               /\ now >= ops[o].wakeAt
               /\ Last(ops'[o].sent) = ops[o].req]_vars

\* witness of C21: one operation has used up its two attempts on retryable
\* failures, and the other, in progress at the same time, is making its
\* second attempt after its own wait of one second
C21_Witness ==
  \E o, p \in PostOps :
    /\ o # p
    /\ maxRetries = 2
    /\ ops[o].pc = "done"
    /\ Len(ops[o].log) = 2
    /\ RetryablePrefix(ops[o].log, 2)
    /\ ops[p].pc = "request"
    /\ Len(ops[p].sent) = 2
    /\ ops[p].waits = <<1000>>
    /\ ops[p].req # ops[o].req

\* C22: once the host has cancelled an operation, be it during a network
\* call or during a backoff wait, no network call is made for it any more;
\* and the expiry of the timeout of a call ends the operation with that call.
C22_NoAttemptAfterCancellation ==
  /\ [](\A o \in Ops :
          \A i \in 1 .. Len(ops[o].log) :
            ops[o].log[i].type = "fault" =>
              (i = Len(ops[o].sent) /\ ops[o].pc = "done"))
  /\ [][\A o \in Ops :
          (ops[o].abandoned /\ ops'[o].pc # "idle") =>
            ops'[o].sent = ops[o].sent]_vars

\* C23: a failure raised by sendOtp, verifyOtp, resendOtp, getStatus,
\* getStatusWithCode or getConfig is an OtpError, and the failure of a local
\* validation is the one with code VALIDATION_ERROR.
C23_OnlyOtpErrorsRaised ==
  \A o \in Ops :
    (/\ ops[o].kind \in {"sendOtp", "verifyOtp", "resendOtp", "getStatus",
                          "getStatusWithCode", "getConfig"}
     /\ ops[o].pc = "done"
     /\ ops[o].result.status = "error") =>
      /\ IsOtpError(ops[o].result.value)
      /\ ops[o].sent = <<>> => ops[o].result.value.code = "VALIDATION_ERROR"


\* C24: the test-mode warning is a side effect only. A getConfig whose fetch
\* succeeded returns exactly the content the fetch delivered, whatever that
\* content says about test mode, and does not raise; a getConfig or
\* isTestMode answered from the cache, without a fetch, emits no warning.
C24_WarningIsPureSideEffect ==
  \A o \in Ops :
    (ops[o].kind \in {"getConfig", "isTestMode"} /\ ops[o].pc = "done") =>
      /\ (ops[o].kind = "getConfig" /\ ops[o].log # <<>> /\ Last(ops[o].log).type = "ok") =>
            ops[o].result = Ok(Last(ops[o].log).data)
      /\ ops[o].sent = <<>> => ~ops[o].warned


\* C25: a client constructed with autoConfig has started exactly one fetch of
\* /api/v1/sdk/config by the end of its construction, which did not wait for
\* the answer; nothing of that fetch is ever raised to the host: its failure
\* ends in the warning of the handler; its success writes the fetched content
\* and the time of arrival to the cache. A client constructed without
\* autoConfig has sent nothing on behalf of its constructor.
C25_AutoConfigInBackground ==
  /\ [](/\ auto.raised = NoValue
        /\ auto.enabled =>
              /\ Len(auto.op.sent) = 1
              /\ auto.op.sent[1].method = "GET"
              /\ auto.op.sent[1].path = <<"/api/v1/sdk/config">>
        /\ (auto.op.pc = "done" /\ auto.op.result.status = "error") =>
              auto.logged = <<auto.op.result.value.message>>
        /\ ~auto.enabled => (auto.op = IdleOp /\ auto.logged = <<>>))
  /\ [][(auto.op.pc = "request" /\ auto'.op.pc = "done"
           /\ Last(auto'.op.log).type = "ok") =>
            /\ serverConfig' = Last(auto'.op.log).data
            /\ serverConfigFetchedAt' = now]_vars

\* the fetch of the constructor failed while an operation of the host, begun
\* after the construction, was still in progress
C25_Witness ==
  /\ auto.enabled
  /\ auto.op.pc = "done"
  /\ auto.op.result.status = "error"
  /\ auto.logged # <<>>
  /\ \E o \in Ops : ops[o].pc = "request"


\* C26: no step of sendOtp, verifyOtp, resendOtp, getStatus,
\* getStatusWithCode or testConnection, ending well or in an error, changes
\* the content or the timestamp of the configuration cache; and the status
\* in the result of sendOtp, resendOtp, getStatus and getStatusWithCode is
\* the status of the response it was made from.
C26_CacheUntouchedStatusVerbatim ==
  /\ [][\A o \in Ops :
          (/\ ops'[o] # ops[o]
           /\ \/ ops[o].kind \in PostKinds \cup {"getStatus", "getStatusWithCode", "testConnection"}
              \/ ops'[o].kind \in PostKinds \cup {"getStatus", "getStatusWithCode", "testConnection"}) =>
            /\ serverConfig' = serverConfig
            /\ serverConfigFetchedAt' = serverConfigFetchedAt]_vars
  /\ [](\A o \in Ops :
          (/\ ops[o].kind \in {"sendOtp", "resendOtp", "getStatus", "getStatusWithCode"}
           /\ ops[o].pc = "done"
           /\ ops[o].result.status = "ok") =>
            ops[o].result.value.status = Last(ops[o].log).data.status)

\* with a configuration in the cache, a status request has returned the
\* status SENT that the service answered
C26_Witness ==
  /\ serverConfig # NoConfig
  /\ \E o \in Ops :
       /\ ops[o].kind \in {"getStatus", "getStatusWithCode"}
       /\ ops[o].pc = "done"
       /\ ops[o].result.status = "ok"
       /\ Last(ops[o].log).data.status = "SENT"


\* C27: every POST operation ends. When every network call is answered and
\* every backoff timer fires, an operation that has sent a request reaches
\* its return or its raise, whatever the answers are; on the way it sends at
\* most maxRetries requests and waits at most maxRetries - 1 times.
C27_PostTerminates ==
  /\ \A o \in Ops :
       (ops[o].kind \in PostKinds /\ ops[o].pc \in {"request", "backoff"})
         ~> (ops[o].pc = "done" /\ ops[o].result # Pending)
  /\ [](\A o \in Ops :
          ops[o].kind \in PostKinds =>
            /\ Len(ops[o].sent) <= maxRetries
            /\ Len(ops[o].waits) <= maxRetries - 1)

\* an operation has ended after maxRetries requests and maxRetries - 1 waits,
\* every answer but the last having been a retryable error
C27_Witness ==
  \E o \in Ops :
    /\ ops[o].kind \in PostKinds
    /\ ops[o].pc = "done"
    /\ maxRetries >= 3
    /\ Len(ops[o].sent) = maxRetries
    /\ Len(ops[o].waits) = maxRetries - 1


\* C28: whatever maxRetries the client was configured with, a POST operation
\* whose arguments passed validation has made at least one network call by
\* the time it ends, and what post() raises is the error of its last call.
C28_EveryConfigurationContactsNetwork ==
  \A o \in Ops :
    (ops[o].kind \in PostKinds /\ ops[o].pc = "done" /\ ops[o].req # NoRequest) =>
      /\ Len(ops[o].sent) >= 1
      /\ ops[o].postReturn.status = "error" =>
            ops[o].postReturn.value = Interceptor(Last(ops[o].log))


\* a fetch of the configuration is in flight: one of a getConfig of the host,
\* or the one the constructor started
FetchInFlight ==
  \/ \E p \in Ops : ops[p].pc = "request" /\ ops[p].kind = "getConfig"
  \/ auto.op.pc = "request"

\* C29: a getConfig that is invoked while a fetch of an earlier getConfig
\* (of the host or of the constructor) is in flight, and that finds no fresh
\* snapshot or is told to refresh, sends a fetch of its own; every getConfig
\* that fetched has sent exactly one request, and the content it returns is
\* the one its own request was answered with.
C29_NoCoalescing ==
  /\ [][\A o \in Ops :
          (/\ FetchInFlight
           /\ ops[o].pc = "idle"
           /\ ops'[o].kind = "getConfig"
           /\ ReachesNetwork(ops'[o])) =>
            /\ ops'[o].pc = "request"
            /\ Len(ops'[o].sent) = 1
            /\ FetchInFlight']_vars
  /\ [](\A o \in Ops :
          (ops[o].kind = "getConfig" /\ ops[o].pc = "done" /\ ops[o].log # <<>>) =>
            /\ Len(ops[o].sent) = 1
            /\ Len(ops[o].log) = 1
            /\ Last(ops[o].log).type = "ok" => ops[o].result = Ok(Last(ops[o].log).data))

\* the first getConfig of the host, begun while the fetch of the constructor
\* was in flight, has returned the content of its own fetch, which is not
\* the content the fetch of the constructor brought
C29_Witness ==
  /\ auto.op.pc = "done"
  /\ auto.op.result.status = "ok"
  /\ \E o \in Ops :
       /\ ops[o].kind = "getConfig"
       /\ ~ops[o].args.forceRefresh
       /\ ops[o].cacheAtStart = "empty"
       /\ ops[o].pc = "done"
       /\ ops[o].result.status = "ok"
       /\ ops[o].result.value # auto.op.result.value


\* C30: every configuration fetch that comes back successfully overwrites
\* the cache with its content and the time of its arrival, whether or not
\* another fetch, sent before or after it, is still in flight, so the cache
\* holds what the fetch that came back last brought; the cached timestamp
\* never goes down; a populated cache is never emptied.
C30_LastCompletedFetchWins ==
  /\ [][\A o \in Ops :
          (FetchReturns(o) /\ Last(ops'[o].log).type = "ok") =>
            /\ serverConfig' = Last(ops'[o].log).data
            /\ serverConfigFetchedAt' = now
            /\ lastFetch'.by = ops[o].id]_vars
  /\ [](lastFetch # NoFetch =>
          /\ serverConfig = lastFetch.content
          /\ serverConfigFetchedAt = lastFetch.at)
  /\ [][serverConfigFetchedAt' >= serverConfigFetchedAt]_vars
  /\ [][(serverConfig # NoConfig /\ serverConfigFetchedAt # 0) =>
          (serverConfig' # NoConfig /\ serverConfigFetchedAt' # 0)]_vars

\* two getConfig calls that both found the cache empty, so that their
\* fetches overlapped, have come back with different contents at different
\* times: the cache holds the content and the time of the later one
C30_Witness ==
  \E o, p \in Ops :
    /\ o # p
    /\ ops[o].kind = "getConfig" /\ ops[p].kind = "getConfig"
    /\ ops[o].cacheAtStart = "empty" /\ ops[p].cacheAtStart = "empty"
    /\ ops[o].pc = "done" /\ ops[p].pc = "done"
    /\ ops[o].result.status = "ok" /\ ops[p].result.status = "ok"
    /\ ops[o].result.value # ops[p].result.value
    /\ cacheWriter.config = ops[p].id
    /\ serverConfig = ops[p].result.value
    /\ serverConfigFetchedAt = now
    /\ now > StartTime

====
